---- MODULE Spec2Model ----
(***************************************************************************)
(* Model of sar_simulator.c: the pipeline orchestrator (main, simulate,    *)
(* process_data), the artifact store (a singly linked list of matrix       *)
(* nodes: get_matrix, get_last_node) and the metadata aggregator           *)
(* (build_metadata).                                                       *)
(*                                                                         *)
(* In the run (Spec) the store is the sequence of nodes in chain order; a  *)
(* node pointer is the node's position in the chain and NULL is position   *)
(* 0.  A buffer is modelled by its element count (NoBuf when the pointer   *)
(* is NULL).  StoreSpec exercises the store operations at pointer level,   *)
(* on nodes linked by their next field at the addresses malloc returns.    *)
(* The DSP stages, the file reader and the writer are not part of          *)
(* sar_simulator.c; they are modelled as collaborators that either publish *)
(* their artifact or report failure.                                       *)
(***************************************************************************)
EXTENDS Integers, Sequences, FiniteSets, TLC

\* ---------------------------------------------------------------- bounds
MaxRows == 2        \* largest waveform length the generators produce
MaxInvalid == 2     \* most invalid characters fed to one yes/no prompt
MaxNodes == 3       \* addresses malloc can hand out (header included)

\* ------------------------------------------------------------- constants
NULL == 0           \* the null node pointer
NoBuf == -1         \* a node whose data pointer is NULL
EOF == "EOF"        \* result of a console read at end of input

Chars == {"s", "p", "y", "n", "x"}

VARIABLES
  loc,          \* position of the run in main / simulate / process_data
  mode,         \* variables.mode
  store,        \* the chain headed by `data`
  calls,        \* the collaborators and helpers called so far, with outcome
  eof,          \* the console has reached end of input
  pc,           \* process_data's answer character `pc`
  resolved,     \* per prompt: what the scanf that ended its loop returned
  invalid,      \* invalid characters consumed by the current prompt
  ret,          \* main's `ret`
  meta_chirp,   \* simulate's meta_chirp (a node pointer)
  meta_match,   \* simulate's meta_match (a node pointer)
  wild,         \* what a read through a NULL node pointer yields
  heap,         \* pointer level: the matrix node stored at each address
  live,         \* pointer level: the addresses malloc has handed out
  head,         \* pointer level: `data`, the address of the header
  appended,     \* pointer level: the node the latest get_last_node returned
  found,        \* pointer level: the latest get_matrix call and its result
  released      \* what free() has been called on, in order

ptrVars == <<heap, live, head, appended, found, released>>

vars == <<loc, mode, store, calls, eof, pc, resolved, invalid, ret,
          meta_chirp, meta_match, wild, ptrVars>>

\* ------------------------------------------------------------ the store
Node(name, rows, cols, buf) ==
  [name |-> name, rows |-> rows, cols |-> cols, data |-> buf]

\* malloc + memset(0): every field zero, empty name, no buffer
ZeroNode == Node("", 0, 0, NoBuf)

\* main, lines 25-27
CreateEmpty == << [ZeroNode EXCEPT !.name = "metadata"] >>

RECURSIVE ScanFrom(_, _, _)
ScanFrom(data, ptr, name) ==
  IF ptr > Len(data) THEN NULL
  ELSE IF data[ptr].name = name THEN ptr
  ELSE ScanFrom(data, ptr + 1, name)

\* get_matrix: linear scan from the head, first node whose name matches
get_matrix(data, name) ==
  IF Len(data) = 0 THEN NULL ELSE ScanFrom(data, 1, name)

RECURSIVE LastFrom(_, _)
LastFrom(data, ptr) ==
  IF ptr = Len(data) THEN ptr ELSE LastFrom(data, ptr + 1)

\* get_last_node: walk to the tail, link a zeroed node after it.
\* GetLastNodeStore is the chain afterwards, GetLastNodePtr the node returned.
GetLastNodeStore(data) ==
  LET last == LastFrom(data, 1)
  IN  SubSeq(data, 1, last) \o << ZeroNode >>

GetLastNodePtr(data) == LastFrom(data, 1) + 1

\* ------------------------------------------------ the store, by pointer
Addr == 1..MaxNodes

\* a matrix node in memory: the fields of Node and the next pointer
Cell(name, rows, cols, buf, next) ==
  [name |-> name, rows |-> rows, cols |-> cols, data |-> buf, next |-> next]

\* memset(ptr, 0, sizeof(matrix))
ZeroCell == Cell("", 0, 0, NoBuf, NULL)

NotAsked == [name |-> "", ptr |-> NULL, asked |-> FALSE]

\* a field read through a node pointer; through NULL it is undefined
RowsOf(data, ptr) == IF ptr = NULL THEN wild.rows ELSE data[ptr].rows
ColsOf(data, ptr) == IF ptr = NULL THEN wild.cols ELSE data[ptr].cols

RECURSIVE CountFrom(_, _)
CountFrom(data, ptr) ==
  IF ptr > Len(data) THEN 0 ELSE 1 + CountFrom(data, ptr + 1)

\* build_metadata, lines 228-233: the nodes counted, starting at data->next
ElementsFromHead(data) == CountFrom(data, 1)
Elements(data) == CountFrom(data, 2)

\* ------------------------------------------------------- collaborators
\* The DSP stages, read_radar_file and write_data: each call is recorded
\* with its outcome; a stage that succeeds links its artifact at the tail
\* (get_last_node) and fills it in, a stage that fails publishes nothing.
Called(name, ok) == Append(calls, [stage |-> name, ok |-> ok])

Publish(data, name, rows, cols) ==
  LET p == GetLastNodePtr(data)
  IN  [GetLastNodeStore(data) EXCEPT ![p] = Node(name, rows, cols, rows * cols)]

Has(data, names) == \A n \in names : get_matrix(data, n) # NULL

\* the named artifacts a collaborator reads: it can succeed only when they
\* are in the store
Requires(stage) ==
  CASE stage = "chirp_matched_generator" -> {"chirp"}
    [] stage = "pulse_compress_signal" -> {"chirp", "match"}
    [] stage = "insert_waveform_in_scene" -> {"chirp"}
    [] stage = "radar_imager" -> {"scene_with_waveform"}
    [] stage = "cinsnowfilters" -> {"radar_image"}
    [] stage = "pulse_compress_image" -> {"radar_image"}
    [] stage = "gbp" -> {"radar_image"}
    [] stage = "gbp_fft" -> {"gbp_image"}
    [] OTHER -> {}

Field(data, name, f) == data[get_matrix(data, name)][f]

\* the store after a collaborator has returned: on success its artifact is
\* at the tail (r, c: the dimensions its inputs give it), on failure the
\* store is as it was; the filters work on "radar_image" in place
Effect(stage, data, ok, r, c) ==
  IF ~ok THEN data
  ELSE CASE stage = "read_radar_file" -> Publish(data, "radar_image", r, c)
         [] stage = "chirp_generator" -> Publish(data, "chirp", r, 1)
         [] stage = "chirp_matched_generator" ->
              Publish(data, "match", Field(data, "chirp", "rows"),
                      Field(data, "chirp", "cols"))
         [] stage = "pulse_compress_signal" ->
              Publish(data, "pulse_compressed",
                      Field(data, "chirp", "rows"), 1)
         [] stage = "insert_waveform_in_scene" ->
              Publish(data, "scene_with_waveform", MaxRows, MaxRows)
         [] stage = "radar_imager" ->
              Publish(data, "radar_image",
                      Field(data, "scene_with_waveform", "rows"),
                      Field(data, "scene_with_waveform", "cols"))
         [] stage = "gbp" ->
              Publish(data, "gbp_image", Field(data, "radar_image", "rows"),
                      Field(data, "radar_image", "cols"))
         [] stage = "gbp_fft" ->
              Publish(data, "gbp_fft", Field(data, "gbp_image", "rows"),
                      Field(data, "gbp_image", "cols"))
         [] OTHER -> data

\* one call of a collaborator from the current store
Collaborate(stage, ok, r, c) ==
  /\ ok => Has(store, Requires(stage))
  /\ calls' = Called(stage, ok)
  /\ store' = Effect(stage, store, ok, r, c)

\* what a console read can return
Input == IF eof THEN {EOF} ELSE Chars \cup {EOF}

\* ----------------------------------------------------------------- main
Init ==
  /\ loc = "ModeSelect"
  /\ mode = "unset"
  /\ store = CreateEmpty
  /\ calls = << >>
  /\ eof = FALSE
  /\ pc = "nul"
  /\ resolved = [denoise |-> "none", pulse |-> "none"]
  /\ invalid = 0
  /\ ret = 0
  /\ meta_chirp = NULL
  /\ meta_match = NULL
  /\ wild = [rows |-> 0, cols |-> 0]
  /\ heap = [a \in Addr |-> ZeroCell]
  /\ live = {}
  /\ head = NULL
  /\ appended = NULL
  /\ found = NotAsked
  /\ released = << >>

\* main, lines 32/45/58: where the mode character sends the run
ModeBranchDefaultsToSimulate(m) ==
  IF m = "p" THEN "ReadFilename" ELSE "chirp_generator"
ModeBranchFallsThrough(m) ==
  IF m = "p" THEN "ReadFilename"
  ELSE IF m = "s" THEN "chirp_generator"
  ELSE "build_metadata"
ModeBranch(m) ==
  IF m = "p" THEN "ReadFilename"
  ELSE IF m = "s" THEN "chirp_generator"
  ELSE "Aborted"

\* main, lines 29-31 and the dispatch on variables.mode
ModeSelect ==
  /\ loc = "ModeSelect"
  /\ \E c \in Input :
       /\ mode' = c
       /\ eof' = (c = EOF)
       /\ loc' = ModeBranch(c)
  /\ UNCHANGED <<store, calls, pc, resolved, invalid, ret, meta_chirp,
                 meta_match, wild>>
  /\ UNCHANGED ptrVars

\* main, lines 35-38: the result of scanf("%s") decides
FilenameBranch(r) == IF r = EOF THEN "Aborted" ELSE "read_radar_file"

\* main, lines 33-38
ReadFilename ==
  /\ loc = "ReadFilename"
  /\ \E r \in (IF eof THEN {EOF} ELSE {"token", EOF}) :
       /\ eof' = (r = EOF)
       /\ loc' = FilenameBranch(r)
  /\ UNCHANGED <<mode, store, calls, pc, resolved, invalid, ret, meta_chirp,
                 meta_match, wild>>
  /\ UNCHANGED ptrVars

\* main, lines 39-43: a false result of read_radar_file closes the run
ReadBranchIgnoresFailure(ok) == "DenoisePrompt"
ReadBranch(ok) == IF ok THEN "DenoisePrompt" ELSE "Aborted"

\* main, lines 39-43 (process_data starts with pc = 0)
read_radar_file ==
  /\ loc = "read_radar_file"
  /\ \E ok \in BOOLEAN, r \in 1..MaxRows, c \in 1..MaxRows :
       /\ Collaborate("read_radar_file", ok, r, c)
       /\ loc' = ReadBranch(ok)
  /\ pc' = "nul"
  /\ UNCHANGED <<mode, eof, resolved, invalid, ret, meta_chirp, meta_match,
                 wild>>
  /\ UNCHANGED ptrVars

\* ------------------------------------------------------------- simulate
\* simulate, line 85: the result of chirp_generator is not looked at
chirp_generator ==
  /\ loc = "chirp_generator"
  /\ \E ok \in BOOLEAN, r \in 1..MaxRows :
       /\ Collaborate("chirp_generator", ok, r, 1)
  /\ loc' = "chirp_matched_generator"
  /\ UNCHANGED <<mode, eof, pc, resolved, invalid, ret, meta_chirp,
                 meta_match, wild>>
  /\ UNCHANGED ptrVars

\* simulate, line 86: the matched filter of "chirp", of the same length
chirp_matched_generator ==
  /\ loc = "chirp_matched_generator"
  /\ \E ok \in BOOLEAN :
       /\ Collaborate("chirp_matched_generator", ok, 0, 0)
  /\ loc' = "lookup_chirp"
  /\ UNCHANGED <<mode, eof, pc, resolved, invalid, ret, meta_chirp,
                 meta_match, wild>>
  /\ UNCHANGED ptrVars

\* A read through a node pointer (ptr->data): through NULL the behaviour is
\* undefined, so the run either dies there or goes on with some value.
Deref(ptr, next) ==
  IF ptr # NULL
  THEN loc' = next /\ UNCHANGED wild
  ELSE \/ loc' = "Crashed" /\ UNCHANGED wild
       \/ /\ loc' = next
          /\ wild' \in [rows : 0..MaxRows, cols : 0..MaxRows]

\* simulate, lines 88-89
lookup_chirp ==
  /\ loc = "lookup_chirp"
  /\ meta_chirp' = get_matrix(store, "chirp")
  /\ calls' = Called("get_matrix:chirp", meta_chirp' # NULL)
  /\ Deref(meta_chirp', "lookup_match")
  /\ UNCHANGED <<mode, store, eof, pc, resolved, invalid, ret, meta_match>>
  /\ UNCHANGED ptrVars

\* simulate, lines 91-92
lookup_match ==
  /\ loc = "lookup_match"
  /\ meta_match' = get_matrix(store, "match")
  /\ calls' = Called("get_matrix:match", meta_match' # NULL)
  /\ Deref(meta_match', "create_chirp_fft")
  /\ UNCHANGED <<mode, store, eof, pc, resolved, invalid, ret, meta_chirp>>
  /\ UNCHANGED ptrVars

\* simulate, line 95: elements allocated for "chirp_fft"
ChirpFftElems(data) == RowsOf(data, meta_chirp)

\* simulate, lines 97-98
ChirpFftRows(data) == RowsOf(data, meta_chirp)
ChirpFftCols(data) == ColsOf(data, meta_chirp)

\* simulate, lines 94-99
create_chirp_fft ==
  /\ loc = "create_chirp_fft"
  /\ LET p == GetLastNodePtr(store)
     IN  store' = [GetLastNodeStore(store) EXCEPT ![p] =
                     [name |-> "chirp_fft",
                      rows |-> ChirpFftRows(store),
                      cols |-> ChirpFftCols(store),
                      data |-> ChirpFftElems(store)]]
  /\ calls' = Called("create:chirp_fft", TRUE)
  /\ loc' = "create_match_fft"
  /\ UNCHANGED <<mode, eof, pc, resolved, invalid, ret, meta_chirp,
                 meta_match, wild>>
  /\ UNCHANGED ptrVars

\* simulate, line 102: elements allocated for "match_fft"
MatchFftElemsFromCols(data) == ColsOf(data, meta_match)
MatchFftElems(data) == RowsOf(data, meta_match)

\* simulate, line 106: strcpy(meta_match_fft->name, ...)
MatchFftNameCopied == "chirp_fft"
MatchFftName == "match_fft"

\* simulate, lines 104-105
MatchFftRows(data) == RowsOf(data, meta_chirp)
MatchFftCols(data) == ColsOf(data, meta_chirp)

\* simulate, lines 101-106
create_match_fft ==
  /\ loc = "create_match_fft"
  /\ LET p == GetLastNodePtr(store)
     IN  store' = [GetLastNodeStore(store) EXCEPT ![p] =
                     [name |-> MatchFftName,
                      rows |-> MatchFftRows(store),
                      cols |-> MatchFftCols(store),
                      data |-> MatchFftElems(store)]]
  /\ calls' = Called("create:match_fft", TRUE)
  /\ loc' = "fft_chirp"
  /\ UNCHANGED <<mode, eof, pc, resolved, invalid, ret, meta_chirp,
                 meta_match, wild>>
  /\ UNCHANGED ptrVars

\* simulate, line 108: fills the "chirp_fft" buffer, publishes nothing
fft_chirp ==
  /\ loc = "fft_chirp"
  /\ \E ok \in BOOLEAN :
       /\ calls' = Called("fft_waveform:chirp", ok)
  /\ loc' = "fft_match"
  /\ UNCHANGED <<mode, store, eof, pc, resolved, invalid, ret, meta_chirp,
                 meta_match, wild>>
  /\ UNCHANGED ptrVars

\* simulate, line 109
fft_match ==
  /\ loc = "fft_match"
  /\ \E ok \in BOOLEAN :
       /\ calls' = Called("fft_waveform:match", ok)
  /\ loc' = "pulse_compress_signal"
  /\ UNCHANGED <<mode, store, eof, pc, resolved, invalid, ret, meta_chirp,
                 meta_match, wild>>
  /\ UNCHANGED ptrVars

\* simulate, lines 111-113: the compressor, then the resolution is printed
pulse_compress_signal ==
  /\ loc = "pulse_compress_signal"
  /\ \E ok \in BOOLEAN :
       /\ ok => Has(store, Requires("pulse_compress_signal"))
       /\ calls' = Called("pulse_compress_signal", ok)
                     \o << [stage |-> "calculate_compressed_pulse_resolution",
                            ok |-> TRUE] >>
       /\ store' = Effect("pulse_compress_signal", store, ok, 0, 0)
  /\ loc' = "insert_waveform_in_scene"
  /\ UNCHANGED <<mode, eof, pc, resolved, invalid, ret, meta_chirp,
                 meta_match, wild>>
  /\ UNCHANGED ptrVars

\* simulate, line 115
insert_waveform_in_scene ==
  /\ loc = "insert_waveform_in_scene"
  /\ \E ok \in BOOLEAN :
       /\ Collaborate("insert_waveform_in_scene", ok, 0, 0)
  /\ loc' = "radar_imager"
  /\ UNCHANGED <<mode, eof, pc, resolved, invalid, ret, meta_chirp,
                 meta_match, wild>>
  /\ UNCHANGED ptrVars

\* main, lines 53-56: only a result of -1 closes the run
SimulateBranch(r) == IF r = -1 THEN "Aborted" ELSE "DenoisePrompt"

\* simulate, line 135: the value simulate returns
SimulateResult(log) == 0

\* simulate, lines 117-135, and main's test of the result (lines 53-56)
radar_imager ==
  /\ loc = "radar_imager"
  /\ \E ok \in BOOLEAN :
       /\ Collaborate("radar_imager", ok, 0, 0)
  /\ ret' = SimulateResult(calls')
  /\ loc' = SimulateBranch(ret')
  /\ pc' = "nul"
  /\ UNCHANGED <<mode, eof, resolved, invalid, meta_chirp, meta_match, wild>>
  /\ UNCHANGED ptrVars

\* --------------------------------------------------------- process_data
\* scanf("%c", &pc): a character is stored in pc, at end of input pc is
\* left as it was
Scanned(old, r) == IF r = EOF THEN old ELSE r

\* the do-while tests of lines 145-148 and 181-184
LoopExits(ch) == ch = "y" \/ ch = "n"

\* process_data, lines 150-154: cinsnowfilters runs when pc is 'y'
DenoiseBranch(ch) == IF ch = "y" THEN "cinsnowfilters" ELSE "PulsePrompt"

\* process_data, lines 143-150: one pass of the first do-while
DenoisePrompt ==
  /\ loc = "DenoisePrompt"
  /\ \E r \in Input :
       LET ch == Scanned(pc, r) IN
       /\ (r # EOF /\ ~LoopExits(ch)) => invalid < MaxInvalid
       /\ pc' = ch
       /\ eof' = (r = EOF)
       /\ IF LoopExits(ch)
          THEN /\ loc' = DenoiseBranch(ch)
               /\ resolved' = [resolved EXCEPT !.denoise = r]
               /\ invalid' = 0
          ELSE /\ loc' = loc
               /\ invalid' = IF r = EOF THEN invalid ELSE invalid + 1
               /\ UNCHANGED resolved
  /\ UNCHANGED <<mode, store, calls, ret, meta_chirp, meta_match, wild>>
  /\ UNCHANGED ptrVars

\* process_data, lines 151-153: filters the radar image in place
cinsnowfilters ==
  /\ loc = "cinsnowfilters"
  /\ \E ok \in BOOLEAN :
       /\ Collaborate("cinsnowfilters", ok, 0, 0)
  /\ loc' = "PulsePrompt"
  /\ UNCHANGED <<mode, eof, pc, resolved, invalid, ret, meta_chirp,
                 meta_match, wild>>
  /\ UNCHANGED ptrVars

\* process_data, lines 186-190: pulse_compress_image runs when pc is 'y'
PulseBranch(ch) == IF ch = "y" THEN "pulse_compress_image" ELSE "gbp"

\* process_data, lines 179-186: one pass of the second do-while
PulsePrompt ==
  /\ loc = "PulsePrompt"
  /\ \E r \in Input :
       LET ch == Scanned(pc, r) IN
       /\ (r # EOF /\ ~LoopExits(ch)) => invalid < MaxInvalid
       /\ pc' = ch
       /\ eof' = (r = EOF)
       /\ IF LoopExits(ch)
          THEN /\ loc' = PulseBranch(ch)
               /\ resolved' = [resolved EXCEPT !.pulse = r]
               /\ invalid' = 0
          ELSE /\ loc' = loc
               /\ invalid' = IF r = EOF THEN invalid ELSE invalid + 1
               /\ UNCHANGED resolved
  /\ UNCHANGED <<mode, store, calls, ret, meta_chirp, meta_match, wild>>
  /\ UNCHANGED ptrVars

\* process_data, lines 187-189: compresses the radar image in place
pulse_compress_image ==
  /\ loc = "pulse_compress_image"
  /\ \E ok \in BOOLEAN :
       /\ Collaborate("pulse_compress_image", ok, 0, 0)
  /\ loc' = "gbp"
  /\ UNCHANGED <<mode, eof, pc, resolved, invalid, ret, meta_chirp,
                 meta_match, wild>>
  /\ UNCHANGED ptrVars

\* process_data: what follows gbp (line 195)
AfterGbpSkipsFft == "build_metadata"
AfterGbp == "gbp_fft"

\* process_data, line 192
gbp ==
  /\ loc = "gbp"
  /\ \E ok \in BOOLEAN :
       /\ Collaborate("gbp", ok, 0, 0)
  /\ loc' = AfterGbp
  /\ UNCHANGED <<mode, eof, pc, resolved, invalid, ret, meta_chirp,
                 meta_match, wild>>
  /\ UNCHANGED ptrVars

\* process_data, lines 194-197, returning to main line 63
gbp_fft ==
  /\ loc = "gbp_fft"
  /\ \E ok \in BOOLEAN :
       /\ Collaborate("gbp_fft", ok, 0, 0)
  /\ loc' = "build_metadata"
  /\ UNCHANGED <<mode, eof, pc, resolved, invalid, ret, meta_chirp,
                 meta_match, wild>>
  /\ UNCHANGED ptrVars

\* ------------------------------------------------------------- finalize
\* build_metadata: one element per node after the header, attached to the
\* header's data pointer
build_metadata ==
  /\ loc = "build_metadata"
  /\ store' = [store EXCEPT ![1].data = Elements(store)]
  /\ calls' = Called("build_metadata", TRUE)
  /\ loc' = "write_data"
  /\ UNCHANGED <<mode, eof, pc, resolved, invalid, ret, meta_chirp,
                 meta_match, wild>>
  /\ UNCHANGED ptrVars

\* main, lines 65-69: the result of write_data is stored and not looked at
write_data ==
  /\ loc = "write_data"
  /\ \E ok \in BOOLEAN :
       /\ calls' = Called("write_data", ok)
       /\ ret' = IF ok THEN 0 ELSE -1
  /\ loc' = "Persisted"
  /\ UNCHANGED <<mode, store, eof, pc, resolved, invalid, meta_chirp,
                 meta_match, wild>>
  /\ UNCHANGED ptrVars

Next ==
  \/ ModeSelect
  \/ ReadFilename
  \/ read_radar_file
  \/ chirp_generator
  \/ chirp_matched_generator
  \/ lookup_chirp
  \/ lookup_match
  \/ create_chirp_fft
  \/ create_match_fft
  \/ fft_chirp
  \/ fft_match
  \/ pulse_compress_signal
  \/ insert_waveform_in_scene
  \/ radar_imager
  \/ DenoisePrompt
  \/ cinsnowfilters
  \/ PulsePrompt
  \/ pulse_compress_image
  \/ gbp
  \/ gbp_fft
  \/ build_metadata
  \/ write_data

Spec == Init /\ [][Next]_vars

TypeOK ==
  /\ loc \in {"ModeSelect", "ReadFilename", "read_radar_file",
              "chirp_generator", "chirp_matched_generator", "lookup_chirp",
              "lookup_match", "create_chirp_fft", "create_match_fft",
              "fft_chirp", "fft_match", "pulse_compress_signal",
              "insert_waveform_in_scene", "radar_imager", "DenoisePrompt",
              "cinsnowfilters", "PulsePrompt", "pulse_compress_image", "gbp",
              "gbp_fft", "build_metadata", "write_data", "Persisted",
              "Aborted", "Crashed", "StoreOps"}
  /\ mode \in Chars \cup {EOF, "unset"}
  /\ pc \in Chars \cup {"nul"}
  /\ invalid \in 0..MaxInvalid
  /\ meta_chirp \in 0..Len(store)
  /\ meta_match \in 0..Len(store)

\* the run states its scheduling guarantees: a sequential program that is
\* not blocked on the console executes its next statement
FairSpec == Spec /\ WF_vars(build_metadata) /\ WF_vars(write_data)

\* -------------------------------------------- the store at pointer level
\* names the callers of the store give their nodes
StoreNames == {"chirp", "match", "metadata"}

\* get_matrix, lines 203-209: the while loop from ptr
RECURSIVE ScanPtrSkipsLast(_, _, _)
ScanPtrSkipsLast(h, ptr, name) ==
  IF ptr = NULL \/ h[ptr].next = NULL THEN NULL
  ELSE IF h[ptr].name = name THEN ptr
  ELSE ScanPtrSkipsLast(h, h[ptr].next, name)

RECURSIVE ScanPtr(_, _, _)
ScanPtr(h, ptr, name) ==
  IF ptr = NULL THEN NULL
  ELSE IF h[ptr].name = name THEN ptr
  ELSE ScanPtr(h, h[ptr].next, name)

\* get_matrix, lines 199-210, on the nodes in memory
get_matrix_ptr_after_header(h, data, name) ==
  IF data = NULL THEN NULL ELSE ScanPtr(h, h[data].next, name)
get_matrix_ptr(h, data, name) ==
  IF data = NULL THEN NULL ELSE ScanPtr(h, data, name)

\* get_last_node, lines 215-220: the node whose next is NULL
TailPtrStaysAtHead(h, ptr) == ptr
RECURSIVE TailPtr(_, _)
TailPtr(h, ptr) ==
  IF h[ptr].next = NULL THEN ptr ELSE TailPtr(h, h[ptr].next)

\* get_last_node, lines 222-223: the new node is linked after ptr and zeroed
LinkAfter(h, ptr, new) ==
  [h EXCEPT ![ptr].next = new, ![new] = ZeroCell]

\* the chain read in order as the run sees it: nodes without their links
RECURSIVE AsSeq(_, _, _)
AsSeq(h, ptr, fuel) ==
  IF ptr = NULL \/ fuel = 0 THEN << >>
  ELSE << Node(h[ptr].name, h[ptr].rows, h[ptr].cols, h[ptr].data) >>
         \o AsSeq(h, h[ptr].next, fuel - 1)

\* main, lines 25-27, with malloc choosing the header's address
StoreInit ==
  /\ head \in Addr
  /\ heap = [a \in Addr |->
               IF a = head THEN [ZeroCell EXCEPT !.name = "metadata"]
               ELSE ZeroCell]
  /\ live = {head}
  /\ appended = NULL
  /\ found = NotAsked
  /\ released = << >>
  /\ store = CreateEmpty
  /\ loc = "StoreOps"
  /\ mode = "unset"
  /\ calls = << >>
  /\ eof = FALSE
  /\ pc = "nul"
  /\ resolved = [denoise |-> "none", pulse |-> "none"]
  /\ invalid = 0
  /\ ret = 0
  /\ meta_chirp = NULL
  /\ meta_match = NULL
  /\ wild = [rows |-> 0, cols |-> 0]

runVars == <<loc, mode, calls, eof, pc, resolved, invalid, ret, meta_chirp,
             meta_match, wild>>

\* get_last_node, lines 212-225; malloc returns an address not in use
get_last_node ==
  /\ head \in live
  /\ \E new \in Addr \ live :
       /\ heap' = LinkAfter(heap, TailPtr(heap, head), new)
       /\ live' = live \cup {new}
       /\ appended' = new
  /\ store' = GetLastNodeStore(store)
  /\ found' = NotAsked
  /\ UNCHANGED <<head, released, runVars>>

\* the caller fills in the node get_last_node returned (as simulate does at
\* lines 95-99): buffer, dimensions, name
FillNode ==
  /\ head \in live
  /\ appended # NULL
  /\ heap[appended].name = ""
  /\ \E n \in StoreNames, r \in 1..MaxRows :
       /\ heap' = [heap EXCEPT ![appended] =
                     Cell(n, r, 1, r, heap[appended].next)]
       /\ store' = [store EXCEPT ![Len(store)] = Node(n, r, 1, r)]
  /\ found' = NotAsked
  /\ UNCHANGED <<live, head, appended, released, runVars>>

\* a call of get_matrix(data, n); it only reads
Lookup ==
  /\ head \in live
  /\ \E n \in StoreNames \cup {"", "gbp_image"} :
       found' = [name |-> n, ptr |-> get_matrix_ptr(heap, head, n),
                 asked |-> TRUE]
  /\ UNCHANGED <<heap, live, head, appended, released, store, runVars>>

\* free_memory, lines 73-81: what one pass of the loop frees at ptr
RECURSIVE FreedFrom(_, _)
FreedFrom(h, ptr) ==
  IF ptr = NULL THEN << >>
  ELSE (IF h[ptr].data # NoBuf THEN << <<"data", ptr>> >> ELSE << >>)
         \o << <<"node", ptr>> >>
         \o FreedFrom(h, h[ptr].next)

\* free_memory(data), lines 72-82
free_memory ==
  /\ head \in live
  /\ released' = released \o FreedFrom(heap, head)
  /\ live' = {}
  /\ found' = NotAsked
  /\ UNCHANGED <<heap, head, appended, store, runVars>>

StoreNext ==
  \/ get_last_node
  \/ FillNode
  \/ Lookup
  \/ free_memory

StoreSpec == StoreInit /\ [][StoreNext]_vars

\* the run and the store operations on their own, side by side
AllInit == Init \/ StoreInit
AllNext == Next \/ StoreNext
AllSpec == AllInit /\ [][AllNext]_vars

\* ------------------------------------------------------------ properties
Stages == [i \in DOMAIN calls |-> calls[i].stage]
NCalls(name) == Cardinality({i \in DOMAIN calls : calls[i].stage = name})
Only(seq, names) == SelectSeq(seq, LAMBDA x : x \in names)
IsPrefix(a, b) == Len(a) <= Len(b) /\ a = SubSeq(b, 1, Len(a))
Terminal == loc \in {"Persisted", "Aborted", "Crashed"}

\* C1: a mode character other than 's' and 'p' ends the run in Aborted with
\* the store holding only the header and nothing called: no stage, no
\* build_metadata, no write_data.
C1_UnknownModeAborts ==
  (loc # "ModeSelect" /\ mode \notin {"s", "p"}) =>
     /\ loc = "Aborted"
     /\ store = CreateEmpty
     /\ Len(store) = 1
     /\ calls = << >>

C1_Witness == loc = "Aborted" /\ mode = "x" /\ ~eof

\* C2: when read_radar_file reports failure the run is Aborted and nothing
\* else is ever called: no prompt is resolved, no post-processing stage,
\* no build_metadata, no write_data.
C2_ReadFailureAborts ==
  (\E i \in DOMAIN calls :
      calls[i].stage = "read_radar_file" /\ ~calls[i].ok) =>
     /\ loc = "Aborted"
     /\ Len(calls) = 1
     /\ resolved = [denoise |-> "none", pulse |-> "none"]
     /\ store = CreateEmpty

C2_Witness ==
  /\ loc = "Aborted"
  /\ mode = "p"
  /\ calls = << [stage |-> "read_radar_file", ok |-> FALSE] >>

C3_Safety ==
  /\ NCalls("write_data") <= 1
  /\ loc \in {"Aborted", "Crashed"} => NCalls("write_data") = 0
  /\ (NCalls("write_data") = 1) <=> (loc = "Persisted")
  /\ NCalls("write_data") = 1 =>
        /\ Len(calls) >= 3
        /\ SubSeq(Stages, Len(calls) - 2, Len(calls))
             = << "gbp_fft", "build_metadata", "write_data" >>
  /\ (Terminal /\ NCalls("gbp_fft") = 1) => loc = "Persisted"

\* C3: write_data is called at most once; a run that completes
\* post-processing (gbp_fft has returned) goes on to call it exactly once,
\* right after build_metadata and as its last call; an aborted run never
\* calls it.
C3_PersistExactlyOnce ==
  /\ []C3_Safety
  /\ (NCalls("gbp_fft") = 1) ~> (loc = "Persisted" /\ NCalls("write_data") = 1)

C3_Witness ==
  /\ loc = "Persisted"
  /\ NCalls("write_data") = 1
  /\ NCalls("build_metadata") = 1

ExternalStages ==
  {"chirp_generator", "chirp_matched_generator", "fft_waveform:chirp",
   "fft_waveform:match", "pulse_compress_signal", "insert_waveform_in_scene",
   "radar_imager", "cinsnowfilters", "pulse_compress_image", "gbp", "gbp_fft"}

\* C4: once an external stage of simulate or process_data has failed,
\* nothing is called after it (no later stage, no build_metadata, no
\* write_data) and the run is Aborted.
C4_StageFailureAborts ==
  \A i \in DOMAIN calls :
     (calls[i].stage \in ExternalStages /\ ~calls[i].ok) =>
        /\ i = Len(calls)
        /\ NCalls("write_data") = 0

\* C5: each yes/no loop is left only on a read that returned 'y' or 'n';
\* the gated stage runs once when that read returned 'y', not at all when
\* it returned 'n', and never more than once.
C5_PromptProtocol ==
  /\ resolved.denoise # "none" => resolved.denoise \in {"y", "n"}
  /\ resolved.pulse # "none" => resolved.pulse \in {"y", "n"}
  /\ NCalls("cinsnowfilters") <= 1
  /\ NCalls("pulse_compress_image") <= 1
  /\ NCalls("cinsnowfilters") = 1 => resolved.denoise = "y"
  /\ NCalls("pulse_compress_image") = 1 => resolved.pulse = "y"
  /\ (resolved.denoise = "y" /\ loc # "cinsnowfilters")
        => NCalls("cinsnowfilters") = 1
  /\ (resolved.pulse = "y" /\ loc # "pulse_compress_image")
        => NCalls("pulse_compress_image") = 1

\* C6: once a console read has hit end of input the run is Aborted and
\* write_data has not been called.
C6_EndOfInputAborts ==
  eof => (loc = "Aborted" /\ NCalls("write_data") = 0)

PostStages == {"cinsnowfilters", "pulse_compress_image", "gbp", "gbp_fft"}
PostOrder(d, p) ==
  (IF d = "y" THEN << "cinsnowfilters" >> ELSE << >>)
    \o (IF p = "y" THEN << "pulse_compress_image" >> ELSE << >>)
    \o << "gbp", "gbp_fft" >>
PostDone == loc \in {"build_metadata", "write_data", "Persisted"}

\* C7: in a run whose two prompts were answered d and p (each 'y' or 'n'),
\* the post-processing stages called so far are always a prefix of
\* [cinsnowfilters if d = 'y'], [pulse_compress_image if p = 'y'], gbp,
\* gbp_fft, and are exactly that sequence once process_data has returned:
\* gbp and gbp_fft run once each, gbp_fft after gbp.
C7_PostProcessingOrder ==
  (resolved.denoise \in {"y", "n"} /\ resolved.pulse # "none") =>
     /\ pc \in {"y", "n"}
     /\ IsPrefix(Only(Stages, PostStages), PostOrder(resolved.denoise, pc))
     /\ PostDone =>
          /\ Only(Stages, PostStages) = PostOrder(resolved.denoise, pc)
          /\ NCalls("gbp") = 1
          /\ NCalls("gbp_fft") = 1

C7_Witness ==
  /\ loc = "Persisted"
  /\ resolved = [denoise |-> "y", pulse |-> "n"]
  /\ Only(Stages, PostStages) = << "cinsnowfilters", "gbp", "gbp_fft" >>

SimulateOrder ==
  << "chirp_generator", "chirp_matched_generator", "get_matrix:chirp",
     "get_matrix:match", "create:chirp_fft", "create:match_fft",
     "fft_waveform:chirp", "fft_waveform:match", "pulse_compress_signal",
     "calculate_compressed_pulse_resolution", "insert_waveform_in_scene",
     "radar_imager" >>
SimulateSteps == {SimulateOrder[i] : i \in DOMAIN SimulateOrder}

\* C8: the steps of simulate run once each in their fixed order, and each
\* get_matrix the orchestrator performs ("chirp", "match") finds its node.
C8_SimulateOrderAndLookups ==
  /\ IsPrefix(Only(Stages, SimulateSteps), SimulateOrder)
  /\ \A i \in DOMAIN calls :
        calls[i].stage \in {"get_matrix:chirp", "get_matrix:match"}
           => calls[i].ok

C9_Attached ==
  loc \in {"write_data", "Persisted"} =>
     /\ store[1].name = "metadata"
     /\ store[1].data = Len(store) - 1

C9_Finalize ==
  loc \in {"build_metadata", "write_data"} =>
     /\ Len(store') = Len(store)
     /\ \A i \in 2..Len(store) : store'[i] = store[i]
     /\ store'[1].data = Len(store) - 1

\* C9: in a run that reaches write_data, the buffer build_metadata attached
\* to the header has one element per node after the header (N, the nodes
\* the store held when process_data returned), and build_metadata and
\* write_data leave those N nodes as they were.
C9_SummarySlots == []C9_Attached /\ [][C9_Finalize]_vars

C9_Witness ==
  /\ loc = "Persisted"
  /\ Len(store) = 10
  /\ store[1].data = 9

RECURSIVE PtrsFrom(_, _, _)
PtrsFrom(h, ptr, fuel) ==
  IF ptr = NULL \/ fuel = 0 THEN << >>
  ELSE << ptr >> \o PtrsFrom(h, h[ptr].next, fuel - 1)

ChainPtrs == PtrsFrom(heap, head, MaxNodes + 1)
InChain == {ChainPtrs[i] : i \in DOMAIN ChainPtrs}
NamesDistinct ==
  \A p, q \in InChain : heap[p].name = heap[q].name => p = q
StoreUp == loc = "StoreOps" /\ head \in live

\* C11: while the names in the store are pairwise distinct, get_matrix of
\* the name given to the node get_last_node just returned yields that very
\* node, and get_matrix of every name in the store yields the node that
\* carries it; a recorded get_matrix call agrees.
C11_AppendThenLookup ==
  (StoreUp /\ NamesDistinct) =>
     /\ appended # NULL =>
          get_matrix_ptr(heap, head, heap[appended].name) = appended
     /\ \A p \in InChain : get_matrix_ptr(heap, head, heap[p].name) = p
     /\ \A p \in InChain :
          (found.asked /\ found.name = heap[p].name) => found.ptr = p

C11_Witness ==
  /\ StoreUp
  /\ NamesDistinct
  /\ Len(ChainPtrs) = 3
  /\ heap[appended].name = "match"
  /\ found = [name |-> "match", ptr |-> appended, asked |-> TRUE]
  /\ get_matrix_ptr(heap, head, "chirp") \notin {NULL, head, appended}

Carriers(name) == {p \in InChain : heap[p].name = name}

\* C12 as stated: get_matrix never returns the header, returns NULL for
\* every name on the header-only store and for every name no node after
\* the header carries, and never returns a node of another name.
C12_NeverTheHeader ==
  (StoreUp /\ found.asked) =>
     /\ found.ptr # head
     /\ Len(ChainPtrs) = 1 => found.ptr = NULL
     /\ Carriers(found.name) \subseteq {head} => found.ptr = NULL
     /\ found.ptr # NULL => heap[found.ptr].name = found.name

\* C12, amended: get_matrix returns NULL exactly for the names no node of
\* the store carries, the header included (on the header-only store: every
\* name but "metadata"); a node it returns is in the chain and carries the
\* requested name; it returns the header exactly for the name "metadata".
C12_NotFoundOrSameName ==
  (StoreUp /\ found.asked) =>
     /\ (found.ptr = NULL) <=> (Carriers(found.name) = {})
     /\ found.ptr # NULL =>
          (found.ptr \in InChain /\ heap[found.ptr].name = found.name)
     /\ (found.ptr = head) <=> (found.name = "metadata")
     /\ (Len(ChainPtrs) = 1 /\ found.name # "metadata") => found.ptr = NULL

C12_Witness ==
  /\ StoreUp
  /\ Len(ChainPtrs) = 3
  /\ found = [name |-> "gbp_image", ptr |-> NULL, asked |-> TRUE]
  /\ \A p \in InChain : heap[p].name # ""

\* ---------------------------------------------- properties of the run
\* C13: in every state of a run no two nodes of the store share a name,
\* and no node is unnamed, so each get_last_node call finds every node
\* already in the store named.
C13_UniqueNames ==
  loc # "StoreOps" =>
     /\ \A i, j \in DOMAIN store : store[i].name = store[j].name => i = j
     /\ \A i \in DOMAIN store : store[i].name # ""
     /\ store[1].name = "metadata"

C13_Witness ==
  /\ loc = "fft_chirp"
  /\ Has(store, {"chirp", "match", "chirp_fft", "match_fft"})
  /\ Len(store) = 5

AllCallsOk == \A i \in DOMAIN calls : calls[i].ok

\* C14: every node of the store that has a data buffer, the header after
\* build_metadata included, has rows * cols equal to the number of elements
\* of the buffer (stated for the runs in which no collaborator failed).
C14_DimsMatchBuffer ==
  (loc # "StoreOps" /\ AllCallsOk) =>
     \A i \in DOMAIN store :
        store[i].data # NoBuf => store[i].rows * store[i].cols = store[i].data

\* -------------------------------------- properties of run and store
SameFields(a, b) ==
  /\ a.name = b.name
  /\ a.rows = b.rows
  /\ a.cols = b.cols
  /\ a.data = b.data

\* the chain in memory ends at NULL without visiting an address twice,
\* starts at the header, holds every node malloc handed out, and read in
\* order it is the sequence the run works on
C15_Chain ==
  StoreUp =>
     /\ Len(ChainPtrs) <= MaxNodes
     /\ \A i, j \in DOMAIN ChainPtrs : ChainPtrs[i] = ChainPtrs[j] => i = j
     /\ ChainPtrs[1] = head
     /\ heap[head].name = "metadata"
     /\ InChain = live
     /\ store = AsSeq(heap, head, MaxNodes + 1)

\* a step of the store operations: the chain keeps its nodes in place and
\* gains at most one, at the tail; get_last_node leaves the fields of every
\* node already there as they were and the new node is zeroed; get_matrix
\* changes nothing
C15_StoreStep ==
  (StoreUp /\ head' \in live') =>
     LET old == ChainPtrs
         new == PtrsFrom(heap', head', MaxNodes + 1)
     IN  /\ head' = head
         /\ IsPrefix(old, new)
         /\ Len(new) <= Len(old) + 1
         /\ Len(new) = Len(old) + 1 =>
              /\ \A p \in InChain : SameFields(heap'[p], heap[p])
              /\ appended' = new[Len(new)]
              /\ heap'[appended'] = ZeroCell
              /\ store' = store \o << ZeroNode >>
         /\ \A p \in InChain \ {appended} : SameFields(heap'[p], heap[p])
         /\ found'.asked =>
              (heap' = heap /\ live' = live /\ store' = store)

\* a step of the run: the store keeps its header first and its nodes in
\* place, gains nodes only at the tail, and no node already there changes
\* (but for the buffer build_metadata attaches to the header)
C15_RunStep ==
  loc # "StoreOps" =>
     /\ IsPrefix([i \in DOMAIN store |-> store[i].name],
                 [i \in DOMAIN store' |-> store'[i].name])
     /\ store'[1].name = "metadata"
     /\ \A i \in DOMAIN store :
          \/ store'[i] = store[i]
          \/ /\ i = 1
             /\ loc = "build_metadata"
             /\ store'[i] = [store[i] EXCEPT !.data = store'[i].data]

\* C15: the store is an acyclic chain that starts at the header; it only
\* grows at the tail, one node per get_last_node call, which leaves every
\* node already there in place and unchanged; no node is removed or
\* reordered; get_matrix leaves the store unchanged.
C15_AppendOnlyChain ==
  /\ []C15_Chain
  /\ [][C15_StoreStep]_vars
  /\ [][C15_RunStep]_vars

C15_Witness ==
  /\ StoreUp
  /\ Len(ChainPtrs) = 3
  /\ appended = ChainPtrs[3]
  /\ heap[appended] = ZeroCell
  /\ heap[ChainPtrs[2]].name = "chirp"
  /\ ChainPtrs[2] > ChainPtrs[3]

PulseRuns == loc = "pulse_compress_image" \/ NCalls("pulse_compress_image") > 0

\* C16: pulse_compress_image runs exactly when the second prompt was
\* resolved by a read, made after the Denoise prompt was resolved, that
\* returned 'y'; the Denoise answer never decides it.
C16_PulseGatedByOwnAnswer ==
  /\ PulseRuns => resolved.pulse = "y"
  /\ (resolved.pulse = "y" /\ loc # "pulse_compress_image")
        => NCalls("pulse_compress_image") = 1
  /\ (resolved.pulse # "none" /\ resolved.pulse # "y") => ~PulseRuns

TimesReleased(item) ==
  Cardinality({i \in DOMAIN released : released[i] = item})

\* C17: when the run has ended, on the success path or on an abort path,
\* free() has been called exactly once on every node of the store, the
\* header included, and on every data buffer.
C17_ReleasedOnExit ==
  (loc # "StoreOps" /\ Terminal) =>
     \A i \in DOMAIN store :
        /\ TimesReleased(<<"node", i>>) = 1
        /\ store[i].data # NoBuf => TimesReleased(<<"data", i>>) = 1

====
